---- MODULE Spec2Model ----
(***************************************************************************)
(* pyprob Model: the importance sampler (Model._traces, prior_traces) and  *)
(* the single-site Metropolis-Hastings sampler (Model.posterior_traces)    *)
(* of src/pyprob/model.py, as a state machine of one sampling call.        *)
(*                                                                         *)
(* Log-quantities are fixed-point numbers in thousandths of a nat.  A      *)
(* float is a record: Fin(n), NaN, PInf or NInf.  A tensor log_prob is a   *)
(* one-element tensor, so torch.sum of it is its element.                  *)
(***************************************************************************)
EXTENDS Integers, Sequences, FiniteSets

VARIABLES
    pc,                 \* position in the running call
    func,               \* "prior_traces" | "posterior_traces" | "none"
    inference_network,  \* self._inference_network: "None" | "net"
    inference_engine,   \* argument inference_engine
    trace_mode,         \* argument trace_mode of _traces
    num_traces,         \* argument num_traces
    map_func,           \* argument map_func: "None" | "given"
    i,                  \* loop variable of the for loop
    trace,              \* _traces: the trace drawn from the generator
    posterior,          \* the Empirical: sequence of [value, log_weight]
    finalized,          \* number of finalize() calls on the Empirical
    renamed,            \* number of rename() calls on the Empirical
    current_trace,
    candidate_trace,
    log_acceptance_ratio,
    traces_accepted,
    samples_reused,
    samples_all,
    site_transition_log_prob, \* state._metropolis_hastings_site_transition_log_prob
    forward_calls,      \* number of forward() executions started
    generator,          \* _traces' generator: "none" | "created" | "started" | "yielded"
    init_traces,        \* number of state._init_traces calls
    begun,              \* number of state._begin_trace calls
    ended,              \* number of state._end_trace calls
    initial_trace,      \* argument initial_trace: "None" | "given"
    site_writer,        \* the execution that last set the transition log-probability
    other,              \* a second run in the same process: its position and locals
    warned,             \* whether the last ratio computation printed the warning of line 118
    error               \* the exception that left the call, or "none"

vars == <<pc, func, inference_network, inference_engine, trace_mode,
          num_traces, map_func, i, trace, posterior, finalized,
          renamed, current_trace, candidate_trace, log_acceptance_ratio,
          traces_accepted, samples_reused, samples_all,
          site_transition_log_prob, forward_calls, generator, init_traces,
          begun, ended, initial_trace, site_writer, other, warned, error>>

----------------------------------------------------------------------------
(* Bounds of the model *)

\* largest num_traces a call is made with
MaxN == 2

\* the uniform draw random.random() is k / UDenom for k in 0 .. UDenom-1
UDenom == 3

\* addresses of the controlled sample statements of the program
Addresses == {1, 2}

\* log_prob of a controlled variable: in a whole sampling run (RunLogProbs),
\* and in the single step of SpecRatio (VarLogProbs)
RunLogProbs == {0}
VarLogProbs == {-1000, 0}

----------------------------------------------------------------------------
(* Floats *)

Fin(n) == [k |-> "fin", v |-> n]
NaN == [k |-> "nan", v |-> 0]
PInf == [k |-> "pinf", v |-> 0]
NInf == [k |-> "ninf", v |-> 0]

\* IEEE addition
FAdd(a, b) ==
    IF a.k = "nan" \/ b.k = "nan" THEN NaN
    ELSE IF a.k = "pinf" THEN (IF b.k = "ninf" THEN NaN ELSE PInf)
    ELSE IF a.k = "ninf" THEN (IF b.k = "pinf" THEN NaN ELSE NInf)
    ELSE IF b.k \in {"pinf", "ninf"} THEN b
    ELSE Fin(a.v + b.v)

FNeg(a) ==
    IF a.k = "pinf" THEN NInf
    ELSE IF a.k = "ninf" THEN PInf
    ELSE IF a.k = "nan" THEN NaN
    ELSE Fin(0 - a.v)

FSub(a, b) == FAdd(a, FNeg(b))

\* IEEE a < b: false whenever an operand is NaN
FLess(a, b) ==
    IF a.k = "nan" \/ b.k = "nan" THEN FALSE
    ELSE IF a.k = "pinf" THEN FALSE
    ELSE IF a.k = "ninf" THEN b.k # "ninf"
    ELSE IF b.k = "pinf" THEN TRUE
    ELSE IF b.k = "ninf" THEN FALSE
    ELSE a.v < b.v

\* 1000 * ln(n), rounded, for the integers the model takes logarithms of
LogMilli(n) ==
    CASE n = 1 -> 0
      [] n = 2 -> 693
      [] n = 3 -> 1099
      [] n = 4 -> 1386
      [] n = 5 -> 1609
      [] n = 6 -> 1792
      [] n = 7 -> 1946
      [] n = 8 -> 2079

\* math.log raises ValueError at 0
MathLogRaises(n) == n <= 0

\* math.log of a positive integer
MathLog(n) == Fin(LogMilli(n))

\* math.log(k / UDenom), 0 < k < UDenom
MathLogFrac(k) == Fin(LogMilli(k) - LogMilli(UDenom))

----------------------------------------------------------------------------
(* Traces *)

\* no object: Python's None for a trace, a weight or the transition term
None == [none |-> TRUE]

\* log_prob_observed of a trace: the data likelihood, possibly log(0)
ObservedLogProbs == {NInf, Fin(0)}

\* log_importance_weight of a trace
LogImportanceWeights == {-1000, 0, 1000}

\* the transition log-probability the controller records at the redrawn site
TransitionLogProbs == {Fin(-500), Fin(0)}

Variables(lps) == [address : Addresses, log_prob : lps, reused : BOOLEAN]

\* variables_controlled: one variable per address, in execution order
ControlledSeqs(lps) ==
    {s \in UNION {[1..n -> Variables(lps)] : n \in 0..Cardinality(Addresses)} :
        \A a, b \in 1..Len(s) : a < b => s[a].address < s[b].address}

\* trace.length_controlled: the count of controlled variables
LengthControlled(t) == Len(t.variables_controlled)

\* trace.variables_dict_address[address]
VariablesDictAddress(t, address) ==
    LET hits == {n \in 1..Len(t.variables_controlled) :
                    t.variables_controlled[n].address = address}
    IN  t.variables_controlled[CHOOSE n \in hits : TRUE]

HasAddress(t, address) ==
    \E n \in 1..Len(t.variables_controlled) :
        t.variables_controlled[n].address = address

\* what one execution under the Metropolis-Hastings engines can record, given
\* the reference trace: a variable is reused only from an address the
\* reference trace holds
MHBodies(ref, lps) ==
    {b \in [variables_controlled : ControlledSeqs(lps),
            log_prob_observed : ObservedLogProbs,
            log_importance_weight : {0}] :
        \A n \in 1..Len(b.variables_controlled) :
            b.variables_controlled[n].reused =>
                ref # None /\ HasAddress(ref, b.variables_controlled[n].address)}

\* what one execution under the importance sampling engines can record
ISBodies ==
    [variables_controlled : {<<>>},
     log_prob_observed : {Fin(0)},
     log_importance_weight : LogImportanceWeights]

\* the trace object made by execution number id
MkTrace(id, b) ==
    [id |-> id,
     variables_controlled |-> b.variables_controlled,
     log_prob_observed |-> b.log_prob_observed,
     log_importance_weight |-> b.log_importance_weight]

\* the transition log-probability left behind by an execution: unset when no
\* reference trace was given or no controlled site was hit
TransitionsAfter(ref, b) ==
    IF ref = None \/ Len(b.variables_controlled) = 0
    THEN {None}
    ELSE {None} \cup TransitionLogProbs

\* initial_trace arguments a caller supplies (a trace of an earlier run)
InitialTraces == {MkTrace(0, b) : b \in MHBodies(None, RunLogProbs)}

\* what add() is handed: the trace object itself when map_func is None, else
\* map_func(trace), the caller's function applied to that trace object
ApplyMapFunc(mf, t) ==
    IF mf = "None" THEN [trace |-> t.id] ELSE [map_func_of |-> t.id]

----------------------------------------------------------------------------
(* The importance sampler's weight (lines 54-57) *)

\* the trace's own weight in either mode
LogWeightAnyMode(mode, t) == t.log_importance_weight

\* the second argument of traces.add: log_weight
LogWeight(mode, t) ==
    IF mode = "PRIOR" THEN 1000 ELSE t.log_importance_weight

----------------------------------------------------------------------------
(* The Empirical's effective sample size, (sum w)^2 / sum (w^2) over the
   weights w = exp(log_weight).  It does not change when every weight is
   scaled by one factor, so the weights are taken relative to the smallest
   log-weight of the model, exp(-1), with e rounded to 3. *)

Weight(log_weight) ==
    CASE log_weight = -1000 -> 1
      [] log_weight = 0 -> 3
      [] log_weight = 1000 -> 9

RECURSIVE SumWeights(_, _)
SumWeights(entries, n) ==
    IF n > Len(entries) THEN 0
    ELSE Weight(entries[n].log_weight) + SumWeights(entries, n + 1)

RECURSIVE SumSquaredWeights(_, _)
SumSquaredWeights(entries, n) ==
    IF n > Len(entries) THEN 0
    ELSE Weight(entries[n].log_weight) * Weight(entries[n].log_weight)
             + SumSquaredWeights(entries, n + 1)

\* effective_sample_size = EssNumerator / EssDenominator
EssNumerator(entries) == SumWeights(entries, 1) * SumWeights(entries, 1)
EssDenominator(entries) == SumSquaredWeights(entries, 1)

----------------------------------------------------------------------------
(* The log acceptance ratio (lines 109-120) *)

\* the two length terms added instead of subtracted
RatioBaseLengthsAdded(cur, cand) ==
    FSub(FAdd(FAdd(MathLog(LengthControlled(cur)),
                   MathLog(LengthControlled(cand))),
              cand.log_prob_observed),
         cur.log_prob_observed)

\* line 109: the length and likelihood terms
RatioBase(cur, cand) ==
    FSub(FAdd(FSub(MathLog(LengthControlled(cur)),
                   MathLog(LengthControlled(cand))),
              cand.log_prob_observed),
         cur.log_prob_observed)

\* the two log_probs of a reused variable with their signs exchanged
AddVariableSwapped(acc, variable, cur) ==
    IF variable.reused
    THEN FAdd(FSub(acc, Fin(variable.log_prob)),
              Fin(VariablesDictAddress(cur, variable.address).log_prob))
    ELSE acc

\* lines 111-113: what one variable of the candidate adds to the ratio
AddVariable(acc, variable, cur) ==
    IF variable.reused
    THEN FSub(FAdd(acc, Fin(variable.log_prob)),
              Fin(VariablesDictAddress(cur, variable.address).log_prob))
    ELSE acc

RECURSIVE RatioLoop(_, _, _, _)
\* lines 110-113: the for loop over candidate_trace.variables_controlled
RatioLoop(acc, vs, n, cur) ==
    IF n > Len(vs) THEN acc
    ELSE RatioLoop(AddVariable(acc, vs[n], cur), vs, n + 1, cur)

\* every controlled variable from the n-th on is counted, reused or not
CountEvery(vs, n) == Len(vs) - n + 1

RECURSIVE CountReused(_, _)
\* line 114: the increments of samples_reused in that loop
CountReused(vs, n) ==
    IF n > Len(vs) THEN 0
    ELSE (IF vs[n].reused THEN 1 ELSE 0) + CountReused(vs, n + 1)

\* lines 117-120: the transition term
AddTransition(acc, transition) ==
    IF transition = None THEN acc ELSE FAdd(acc, transition)

\* lines 109-120
LogAcceptanceRatio(cur, cand, transition) ==
    AddTransition(
        RatioLoop(RatioBase(cur, cand), cand.variables_controlled, 1, cur),
        transition)

\* line 109 raises ValueError: math.log(0)
RatioRaises(cur, cand) ==
    MathLogRaises(LengthControlled(cur)) \/ MathLogRaises(LengthControlled(cand))

\* line 123: math.log(random.random()) < float(log_acceptance_ratio)
AcceptTest(k, ratio) == FLess(MathLogFrac(k), ratio)

\* the candidate replaces the current trace whatever the test says
NextCurrentAlways(accept, cur, cand) == cand

\* lines 123-125: the current trace after the test
NextCurrent(accept, cur, cand) == IF accept THEN cand ELSE cur

\* lines 126-129: the value handed to posterior.add
StoredValue(mf, cur) == ApplyMapFunc(mf, cur)

\* an entry of the Empirical: the two arguments of add(); log_weight is None
\* when add() is called with the value alone
Entry(value, log_weight) == [value |-> value, log_weight |-> log_weight]

----------------------------------------------------------------------------
(* The state machine *)

Engines == {"IMPORTANCE_SAMPLING", "IMPORTANCE_SAMPLING_WITH_INFERENCE_NETWORK",
            "LIGHTWEIGHT_METROPOLIS_HASTINGS", "RANDOM_WALK_METROPOLIS_HASTINGS"}

MHEngines == {"LIGHTWEIGHT_METROPOLIS_HASTINGS", "RANDOM_WALK_METROPOLIS_HASTINGS"}

MapFuncs == {"None", "given"}

\* Model.__init__ (lines 17-24); no call is running
Init ==
    /\ pc = "idle"
    /\ func = "none"
    /\ inference_network = "None"
    /\ inference_engine = "none"
    /\ trace_mode = "none"
    /\ num_traces = 0
    /\ map_func = "None"
    /\ i = 0
    /\ trace = None
    /\ posterior = None
    /\ finalized = 0
    /\ renamed = 0
    /\ current_trace = None
    /\ candidate_trace = None
    /\ log_acceptance_ratio = None
    /\ traces_accepted = 0
    /\ samples_reused = 0
    /\ samples_all = 0
    /\ site_transition_log_prob = None
    /\ forward_calls = 0
    /\ generator = "none"
    /\ init_traces = 0
    /\ begun = 0
    /\ ended = 0
    /\ initial_trace = "None"
    /\ site_writer = None
    /\ other = None
    /\ warned = FALSE
    /\ error = "none"

\* an exception leaves the call
Raise(e) ==
    /\ pc' = "raised"
    /\ error' = e

MHState == <<current_trace, candidate_trace, log_acceptance_ratio,
             traces_accepted, samples_reused, samples_all, warned>>

CallArgs == <<func, inference_engine, trace_mode, num_traces, map_func>>

\* the trace state of module state, as the generator drives it
TraceState == <<init_traces, begun, ended>>

\* the global transition log-probability of module state
SiteState == <<site_transition_log_prob, site_writer>>

\* load_inference_network (lines 169-172)
LoadInferenceNetwork ==
    /\ pc = "idle"
    /\ inference_network = "None"
    /\ inference_network' = "net"
    /\ UNCHANGED <<pc, CallArgs, i, trace, posterior, finalized, renamed,
                   MHState, SiteState, forward_calls, generator, TraceState,
                   initial_trace, other, error>>

\* learn_inference_network (lines 146-159): a network is created when there
\* is none, else the existing one is trained on
LearnInferenceNetwork ==
    /\ pc = "idle"
    /\ inference_network' = "net"
    /\ UNCHANGED <<pc, CallArgs, i, trace, posterior, finalized, renamed,
                   MHState, SiteState, forward_calls, generator, TraceState,
                   initial_trace, other, error>>

\* _traces up to its for loop (lines 38-44): the generator is created and has
\* not run yet, the Empirical is created
EnterTraces(f, mode, engine, n, mf) ==
    /\ func' = f
    /\ trace_mode' = mode
    /\ inference_engine' = engine
    /\ num_traces' = n
    /\ map_func' = mf
    /\ generator' = "created"
    /\ posterior' = <<>>
    /\ i' = 0
    /\ pc' = "is_loop"
    /\ UNCHANGED <<inference_network, trace, finalized, renamed, MHState,
                   SiteState, forward_calls, TraceState, initial_trace, other,
                   error>>

\* prior_traces (line 67) entering _traces
CallPriorTraces ==
    /\ pc = "idle"
    /\ \E n \in 0..MaxN, mf \in MapFuncs :
          EnterTraces("prior_traces", "PRIOR", "IMPORTANCE_SAMPLING", n, mf)

\* no model is ever found without a network
NetworkNeverMissing(network) == FALSE

\* line 79: self._inference_network is None
NetworkMissing(network) == network = "None"

\* posterior_traces with an importance sampling engine (lines 75-83)
CallPosteriorTracesIS ==
    /\ pc = "idle"
    /\ \E engine \in Engines \ MHEngines, n \in 0..MaxN, mf \in MapFuncs :
          IF engine = "IMPORTANCE_SAMPLING_WITH_INFERENCE_NETWORK"
             /\ NetworkMissing(inference_network)
          THEN /\ Raise("RuntimeError")
               /\ func' = "posterior_traces"
               /\ inference_engine' = engine
               /\ num_traces' = n
               /\ map_func' = mf
               /\ UNCHANGED <<inference_network, trace_mode, i, trace, posterior,
                              finalized, renamed, MHState, SiteState,
                              forward_calls, generator, TraceState,
                              initial_trace, other>>
          ELSE EnterTraces("posterior_traces", "POSTERIOR", engine, n, mf)

\* the loop of _traces runs once more than asked
TracesLoopOneMore(n, total) == n <= total

\* line 45: for i in range(num_traces)
TracesLoopContinues(n, total) == n < total

\* an off-by-one loop bound
MHLoopOneMore(n, total) == n <= total

\* line 100: for i in range(num_traces)
MHLoopContinues(n, total) == n < total

\* _traces, the head of the for loop with its progress line (lines 45-52):
\* with util._verbosity > 1 (and not silent) the line is printed at the last
\* trace, and (i + 1) / duration divides by the time elapsed since time_start,
\* which is 0 while the clock has not moved
TracesLoop ==
    /\ pc = "is_loop"
    /\ IF TracesLoopContinues(i, num_traces)
       THEN \E verbose \in BOOLEAN, duration \in {0, 1} :
               IF verbose /\ i = num_traces - 1 /\ duration = 0
               THEN Raise("ZeroDivisionError")
               ELSE pc' = "gen_resume" /\ UNCHANGED error
       ELSE pc' = "is_finalize" /\ UNCHANGED error
    /\ UNCHANGED <<CallArgs, inference_network, i, trace, posterior, finalized,
                   renamed, MHState, SiteState, forward_calls, generator,
                   TraceState, initial_trace, other>>

\* next(generator) on the generator that has not run yet (line 53): its body
\* starts with state._init_traces (line 30)
GenInitTraces ==
    /\ pc = "gen_resume"
    /\ generator = "created"
    /\ init_traces' = init_traces + 1
    /\ generator' = "started"
    /\ pc' = "gen_begin"
    /\ UNCHANGED <<CallArgs, inference_network, i, trace, posterior, finalized,
                   renamed, MHState, SiteState, forward_calls, begun, ended,
                   initial_trace, other, error>>

\* next(generator) resumes a generator after its yield at the head of the
\* while loop (lines 31, 35)
GenResumes(g) == g = "yielded"

\* state._begin_trace (line 32), at the head of the generator's while loop:
\* after _init_traces, or when next(generator) resumes it after its yield
GenBeginTrace ==
    /\ \/ pc = "gen_begin"
       \/ pc = "gen_resume" /\ GenResumes(generator)
    /\ begun' = begun + 1
    /\ generator' = "started"
    /\ pc' = "is_next"
    /\ UNCHANGED <<CallArgs, inference_network, i, trace, posterior, finalized,
                   renamed, MHState, SiteState, forward_calls, init_traces,
                   ended, initial_trace, other, error>>

\* an exception of forward() is recorded and the loop goes on with the next trace
TracesNextContinue ==
    /\ pc = "is_next"
    /\ forward_calls' = forward_calls + 1
    /\ \/ /\ error' = "ModelError"
          /\ pc' = "is_loop"
          /\ UNCHANGED <<trace, ended, generator>>
       \/ /\ \E b \in ISBodies : trace' = MkTrace(forward_calls + 1, b)
          /\ ended' = ended + 1
          /\ generator' = "yielded"
          /\ pc' = "is_add"
          /\ UNCHANGED error
    /\ UNCHANGED <<CallArgs, inference_network, i, posterior, finalized,
                   renamed, MHState, SiteState, init_traces, begun,
                   initial_trace, other>>

\* _traces, trace = next(generator) (line 53), the rest of the generator's
\* pass (lines 33-35): one execution of forward(), which may raise, then
\* state._end_trace on its result and the yield of the trace
TracesNext ==
    /\ pc = "is_next"
    /\ forward_calls' = forward_calls + 1
    /\ \/ /\ Raise("ModelError")
          /\ UNCHANGED <<trace, ended, generator>>
       \/ /\ \E b \in ISBodies : trace' = MkTrace(forward_calls + 1, b)
          /\ ended' = ended + 1
          /\ generator' = "yielded"
          /\ pc' = "is_add"
          /\ UNCHANGED error
    /\ UNCHANGED <<CallArgs, inference_network, i, posterior, finalized,
                   renamed, MHState, SiteState, init_traces, begun,
                   initial_trace, other>>

\* _traces, lines 54-60: the weight is read from the generated trace, then
\* trace is rebound to map_func(trace), then both are added
TracesAdd ==
    /\ pc = "is_add"
    /\ LET log_weight == LogWeight(trace_mode, trace)
       IN  posterior' = Append(posterior,
                               Entry(ApplyMapFunc(map_func, trace), log_weight))
    /\ trace' = IF map_func = "None" THEN trace ELSE ApplyMapFunc(map_func, trace)
    /\ i' = i + 1
    /\ pc' = "is_loop"
    /\ UNCHANGED <<CallArgs, inference_network, finalized, renamed,
                   MHState, SiteState, forward_calls, generator, TraceState,
                   initial_trace, other, error>>

\* _traces returns its Empirical as it is after the loop
TracesFinalizeSkipped ==
    /\ pc = "is_finalize"
    /\ pc' = "is_rename"
    /\ UNCHANGED <<CallArgs, inference_network, i, trace, posterior, renamed,
                   finalized, MHState, SiteState, forward_calls, generator,
                   TraceState, initial_trace, other, error>>

\* _traces, lines 61-64
TracesFinalize ==
    /\ pc = "is_finalize"
    /\ finalized' = finalized + 1
    /\ pc' = "is_rename"
    /\ UNCHANGED <<CallArgs, inference_network, i, trace, posterior, renamed,
                   MHState, SiteState, forward_calls, generator, TraceState,
                   initial_trace, other, error>>

\* the rename of the importance samplers and the return (lines 68-69, 77, 84, 136)
TracesRename ==
    /\ pc = "is_rename"
    /\ renamed' = renamed + 1
    /\ pc' = "returned"
    /\ UNCHANGED <<CallArgs, inference_network, i, trace, posterior, finalized,
                   MHState, SiteState, forward_calls, generator, TraceState,
                   initial_trace, other, error>>

\* who set the global transition log-probability: the run ("self" or
\* "other") and the number of its execution
Writer(run, execution) == [run |-> run, execution |-> execution]

\* an execution is run even when an initial trace is supplied
InitialTraceIgnored(given) == TRUE

\* line 87: initial_trace is None
InitialTraceIsNone(given) == given = None

\* posterior_traces with a Metropolis-Hastings engine, up to the for loop
\* (lines 85-99): the Empirical is created and the first current trace is the
\* initial_trace argument or one execution with no reference trace
CallPosteriorTracesMH ==
    /\ pc = "idle"
    /\ \E engine \in MHEngines, n \in 0..MaxN, mf \in MapFuncs,
          given \in {None} \cup InitialTraces :
          /\ func' = "posterior_traces"
          /\ inference_engine' = engine
          /\ trace_mode' = "POSTERIOR"
          /\ num_traces' = n
          /\ map_func' = mf
          /\ initial_trace' = (IF given = None THEN "None" ELSE "given")
          /\ posterior' = <<>>
          /\ IF InitialTraceIsNone(given)
             THEN /\ init_traces' = init_traces + 1
                  /\ begun' = begun + 1
                  /\ forward_calls' = forward_calls + 1
                  /\ site_transition_log_prob' = None
                  /\ site_writer' = Writer("self", forward_calls + 1)
                  /\ \/ /\ Raise("ModelError")
                        /\ UNCHANGED <<current_trace, i, ended>>
                     \/ /\ \E b \in MHBodies(None, RunLogProbs) :
                              current_trace' = MkTrace(forward_calls + 1, b)
                        /\ ended' = ended + 1
                        /\ i' = 0
                        /\ pc' = "mh_loop"
                        /\ UNCHANGED error
             ELSE /\ current_trace' = given
                  /\ i' = 0
                  /\ pc' = "mh_loop"
                  /\ UNCHANGED <<forward_calls, TraceState, SiteState, error>>
    /\ UNCHANGED <<inference_network, trace, finalized, renamed,
                   candidate_trace, log_acceptance_ratio, traces_accepted,
                   samples_reused, samples_all, warned, generator, other>>

\* the head of the for loop with its progress line (lines 100-107)
MHLoop ==
    /\ pc = "mh_loop"
    /\ IF MHLoopContinues(i, num_traces)
       THEN \E verbose \in BOOLEAN, duration \in {0, 1} :
               IF verbose /\ i = num_traces - 1 /\ duration = 0
               THEN Raise("ZeroDivisionError")
               ELSE pc' = "mh_propose" /\ UNCHANGED error
       ELSE pc' = "mh_finalize" /\ UNCHANGED error
    /\ UNCHANGED <<CallArgs, inference_network, i, trace, posterior, finalized,
                   renamed, MHState, SiteState, forward_calls, generator,
                   TraceState, initial_trace, other>>

\* line 108: one execution of forward() with the current trace as the
\* reference trace; it may raise
MHPropose ==
    /\ pc = "mh_propose"
    /\ init_traces' = init_traces + 1
    /\ begun' = begun + 1
    /\ forward_calls' = forward_calls + 1
    /\ \/ /\ Raise("ModelError")
          /\ UNCHANGED <<candidate_trace, SiteState, ended>>
       \/ /\ \E b \in MHBodies(current_trace, RunLogProbs) :
                /\ candidate_trace' = MkTrace(forward_calls + 1, b)
                /\ site_transition_log_prob' \in TransitionsAfter(current_trace, b)
          /\ site_writer' = Writer("self", forward_calls + 1)
          /\ ended' = ended + 1
          /\ pc' = "mh_ratio"
          /\ UNCHANGED error
    /\ UNCHANGED <<CallArgs, inference_network, i, trace, posterior, finalized,
                   renamed, current_trace, log_acceptance_ratio,
                   traces_accepted, samples_reused, samples_all, warned,
                   generator, initial_trace, other>>

\* lines 109-120: the log acceptance ratio and the sample tallies
MHRatio ==
    /\ pc = "mh_ratio"
    /\ IF RatioRaises(current_trace, candidate_trace)
       THEN /\ Raise("ValueError")
            /\ UNCHANGED <<log_acceptance_ratio, samples_reused, samples_all,
                           warned>>
       ELSE /\ log_acceptance_ratio' =
                   LogAcceptanceRatio(current_trace, candidate_trace,
                                      site_transition_log_prob)
            /\ samples_reused' =
                   samples_reused + CountReused(candidate_trace.variables_controlled, 1)
            /\ samples_all' = samples_all + LengthControlled(candidate_trace)
            /\ warned' = (site_transition_log_prob = None)
            /\ pc' = "mh_accept"
            /\ UNCHANGED error
    /\ UNCHANGED <<CallArgs, inference_network, i, trace, posterior, finalized,
                   renamed, current_trace, candidate_trace, traces_accepted,
                   SiteState, forward_calls, generator, TraceState,
                   initial_trace, other>>

\* the step rebinds current_trace to map_func(current_trace), as line 59 of
\* _traces does with its trace
MHAcceptRebinding ==
    /\ pc = "mh_accept"
    /\ \E k \in 0..(UDenom - 1) :
          IF MathLogRaises(k)
          THEN /\ Raise("ValueError")
               /\ UNCHANGED <<traces_accepted, current_trace, posterior, i>>
          ELSE LET accept == AcceptTest(k, log_acceptance_ratio)
                   cur == NextCurrent(accept, current_trace, candidate_trace)
               IN  /\ traces_accepted' =
                          IF accept THEN traces_accepted + 1 ELSE traces_accepted
                   /\ current_trace' =
                          IF map_func = "None" THEN cur ELSE ApplyMapFunc(map_func, cur)
                   /\ posterior' = Append(posterior,
                                          Entry(StoredValue(map_func, cur), None))
                   /\ i' = i + 1
                   /\ pc' = "mh_loop"
                   /\ UNCHANGED error
    /\ UNCHANGED <<CallArgs, inference_network, trace, finalized, renamed,
                   candidate_trace, log_acceptance_ratio, samples_reused,
                   samples_all, warned, SiteState, forward_calls, generator,
                   TraceState, initial_trace, other>>

\* lines 123-129: the accept test on a uniform draw k / UDenom, and the add
MHAccept ==
    /\ pc = "mh_accept"
    /\ \E k \in 0..(UDenom - 1) :
          IF MathLogRaises(k)
          THEN /\ Raise("ValueError")
               /\ UNCHANGED <<traces_accepted, current_trace, posterior, i>>
          ELSE LET accept == AcceptTest(k, log_acceptance_ratio)
                   cur == NextCurrent(accept, current_trace, candidate_trace)
               IN  /\ traces_accepted' =
                          IF accept THEN traces_accepted + 1 ELSE traces_accepted
                   /\ current_trace' = cur
                   /\ posterior' = Append(posterior,
                                          Entry(StoredValue(map_func, cur), None))
                   /\ i' = i + 1
                   /\ pc' = "mh_loop"
                   /\ UNCHANGED error
    /\ UNCHANGED <<CallArgs, inference_network, trace, finalized, renamed,
                   candidate_trace, log_acceptance_ratio, samples_reused,
                   samples_all, warned, SiteState, forward_calls, generator,
                   TraceState, initial_trace, other>>

\* lines 130-133
MHFinalize ==
    /\ pc = "mh_finalize"
    /\ finalized' = finalized + 1
    /\ pc' = "mh_rename"
    /\ UNCHANGED <<CallArgs, inference_network, i, trace, posterior, renamed,
                   MHState, SiteState, forward_calls, generator, TraceState,
                   initial_trace, other, error>>

\* line 134 raises ZeroDivisionError
RenameRaises(n, all) == n = 0 \/ all = 0

\* lines 134-136: the rename with the acceptance and reuse percentages
MHRename ==
    /\ pc = "mh_rename"
    /\ IF RenameRaises(num_traces, samples_all)
       THEN Raise("ZeroDivisionError") /\ UNCHANGED renamed
       ELSE /\ renamed' = renamed + 1
            /\ pc' = "returned"
            /\ UNCHANGED error
    /\ UNCHANGED <<CallArgs, inference_network, i, trace, posterior, finalized,
                   MHState, SiteState, forward_calls, generator, TraceState,
                   initial_trace, other>>

Next ==
    \/ LoadInferenceNetwork
    \/ LearnInferenceNetwork
    \/ CallPriorTraces
    \/ CallPosteriorTracesIS
    \/ CallPosteriorTracesMH
    \/ TracesLoop
    \/ GenInitTraces
    \/ GenBeginTrace
    \/ TracesNext
    \/ TracesAdd
    \/ TracesFinalize
    \/ TracesRename
    \/ MHLoop
    \/ MHPropose
    \/ MHRatio
    \/ MHAccept
    \/ MHFinalize
    \/ MHRename

Spec == Init /\ [][Next]_vars

----------------------------------------------------------------------------
(* One step of the chain on arbitrary traces: the run is at line 109 of its
   first step, with a current trace and a candidate whose variables carry
   any of VarLogProbs *)

InitRatio ==
    /\ pc = "mh_ratio"
    /\ func = "posterior_traces"
    /\ inference_network = "None"
    /\ inference_engine \in MHEngines
    /\ trace_mode = "POSTERIOR"
    /\ num_traces = 1
    /\ map_func = "None"
    /\ i = 0
    /\ trace = None
    /\ posterior = <<>>
    /\ finalized = 0
    /\ renamed = 0
    /\ \E b \in MHBodies(None, VarLogProbs) :
          /\ current_trace = MkTrace(1, b)
          /\ \E c \in MHBodies(current_trace, VarLogProbs) :
                /\ candidate_trace = MkTrace(2, c)
                /\ site_transition_log_prob \in TransitionsAfter(current_trace, c)
    /\ site_writer = Writer("self", 2)
    /\ generator = "none"
    /\ init_traces = 2
    /\ begun = 2
    /\ ended = 2
    /\ initial_trace = "None"
    /\ other = None
    /\ log_acceptance_ratio = None
    /\ traces_accepted = 0
    /\ samples_reused = 0
    /\ samples_all = 0
    /\ forward_calls = 2
    /\ warned = FALSE
    /\ error = "none"

NextRatio == MHRatio \/ MHAccept

SpecRatio == InitRatio /\ [][NextRatio]_vars

----------------------------------------------------------------------------
(* Two runs of posterior_traces with a Metropolis-Hastings engine in one
   process, both in their for loop, their steps interleaved.  Module state
   is one object per process, so both runs set and read the same
   state._metropolis_hastings_site_transition_log_prob.  The run of the
   variables above is "self"; of the run "other" the model keeps its
   position, its loop variable and the number of its executions, and not
   its traces.  TraceState counts the calls of "self" only. *)

\* the locals of the other run
OtherRun(p, n, total, executions, read) ==
    [pc |-> p, i |-> n, num_traces |-> total, executions |-> executions,
     read |-> read]

InitTwo ==
    /\ pc = "mh_loop"
    /\ func = "posterior_traces"
    /\ inference_network = "None"
    /\ inference_engine \in MHEngines
    /\ trace_mode = "POSTERIOR"
    /\ num_traces = 1
    /\ map_func = "None"
    /\ i = 0
    /\ trace = None
    /\ posterior = <<>>
    /\ finalized = 0
    /\ renamed = 0
    /\ \E b \in MHBodies(None, RunLogProbs) : current_trace = MkTrace(1, b)
    /\ candidate_trace = None
    /\ log_acceptance_ratio = None
    /\ traces_accepted = 0
    /\ samples_reused = 0
    /\ samples_all = 0
    /\ site_transition_log_prob = None
    /\ site_writer \in {Writer("self", 1), Writer("other", 1)}
    /\ forward_calls = 1
    /\ generator = "none"
    /\ init_traces = 1
    /\ begun = 1
    /\ ended = 1
    /\ initial_trace = "None"
    /\ other = OtherRun("mh_loop", 0, 1, 1, None)
    /\ warned = FALSE
    /\ error = "none"

SelfState == <<pc, CallArgs, inference_network, i, trace, posterior, finalized,
               renamed, MHState, forward_calls, generator, TraceState,
               initial_trace, error>>

\* the other run at line 100
OtherLoop ==
    /\ other.pc = "mh_loop"
    /\ other' = [other EXCEPT !.pc = IF MHLoopContinues(other.i, other.num_traces)
                                     THEN "mh_propose" ELSE "mh_finalize"]
    /\ UNCHANGED <<SelfState, SiteState>>

\* the other run at line 108: its execution sets the transition
\* log-probability of module state
OtherPropose ==
    /\ other.pc = "mh_propose"
    /\ site_transition_log_prob' \in {None} \cup TransitionLogProbs
    /\ site_writer' = Writer("other", other.executions + 1)
    /\ other' = [other EXCEPT !.pc = "mh_ratio",
                              !.executions = other.executions + 1]
    /\ UNCHANGED SelfState

\* the other run at lines 109-120: it reads the transition log-probability
\* of module state
OtherRatio ==
    /\ other.pc = "mh_ratio"
    /\ other' = [other EXCEPT !.pc = "mh_accept", !.read = site_writer]
    /\ UNCHANGED <<SelfState, SiteState>>

\* the other run at lines 123-129
OtherAccept ==
    /\ other.pc = "mh_accept"
    /\ other' = [other EXCEPT !.pc = "mh_loop", !.i = other.i + 1]
    /\ UNCHANGED <<SelfState, SiteState>>

NextTwo ==
    \/ MHLoop
    \/ MHPropose
    \/ MHRatio
    \/ MHAccept
    \/ OtherLoop
    \/ OtherPropose
    \/ OtherRatio
    \/ OtherAccept

SpecTwo == InitTwo /\ [][NextTwo]_vars

----------------------------------------------------------------------------
(* Claims *)

MHRun == inference_engine \in MHEngines

\* C1: a LIGHTWEIGHT_MH or RANDOM_WALK_MH run adds exactly one entry to the
\* posterior per step, whatever the accept/reject outcomes: while the loop
\* runs, i completed steps have added exactly i entries, and when the loop is
\* left and the posterior is finalized, renamed and returned it has exactly
\* num_traces entries.
C1_ChainLength ==
    MHRun =>
        /\ pc \in {"mh_loop", "mh_propose", "mh_ratio", "mh_accept"}
              => Len(posterior) = i /\ i <= num_traces
        /\ pc \in {"mh_finalize", "mh_rename", "returned"}
              => Len(posterior) = num_traces

\* a returned chain of two steps, one of them rejected
C1_Witness ==
    /\ MHRun
    /\ pc = "returned"
    /\ num_traces = 2
    /\ Len(posterior) = 2
    /\ traces_accepted = 1

\* C2: in every step the entry appended is the current trace after the
\* accept/reject decision (as map_func hands it over): the candidate when the
\* step accepted, else the very trace that was current before the step, so
\* that a rejected step repeats the previous entry; and the current trace
\* changes only in an accepting step, to that step's candidate.
C2_AppendedIsCurrent ==
    [][/\ (pc = "mh_accept" /\ pc' = "mh_loop") =>
            /\ posterior' = Append(posterior,
                                   Entry(ApplyMapFunc(map_func, current_trace'), None))
            /\ traces_accepted' \in {traces_accepted, traces_accepted + 1}
            /\ traces_accepted' = traces_accepted + 1
                  => current_trace' = candidate_trace
            /\ traces_accepted' = traces_accepted
                  => /\ current_trace' = current_trace
                     /\ Len(posterior) >= 1
                           => posterior'[Len(posterior')] = posterior[Len(posterior)]
       /\ (current_trace # None /\ current_trace' # current_trace) =>
            /\ pc = "mh_accept"
            /\ current_trace' = candidate_trace
            /\ traces_accepted' = traces_accepted + 1
      ]_vars

\* step 1 accepted its candidate, step 2 rejected and repeated the entry
C2_Witness ==
    /\ MHRun
    /\ pc = "mh_loop"
    /\ Len(posterior) = 2
    /\ traces_accepted = 1
    /\ posterior[1] = posterior[2]
    /\ posterior[2] = Entry(ApplyMapFunc(map_func, current_trace), None)
    /\ candidate_trace # current_trace

\* the controlled variables of the candidate tagged reused
ReusedOf(cand) ==
    {n \in 1..Len(cand.variables_controlled) : cand.variables_controlled[n].reused}

\* the log_prob of the variable of cur at the address of the n-th variable of cand
SameAddressLogProb(cur, cand, n) ==
    LET m == CHOOSE m \in 1..Len(cur.variables_controlled) :
                 cur.variables_controlled[m].address
                     = cand.variables_controlled[n].address
    IN  cur.variables_controlled[m].log_prob

RECURSIVE ReusedSum(_, _, _)
\* the sum over a set of variables of cand of log_prob minus the log_prob at
\* the same address in cur
ReusedSum(S, cur, cand) ==
    IF S = {} THEN 0
    ELSE LET n == CHOOSE n \in S : TRUE
         IN  cand.variables_controlled[n].log_prob
                 - SameAddressLogProb(cur, cand, n)
                 + ReusedSum(S \ {n}, cur, cand)

\* C3: the log acceptance ratio used in the accept test is
\* log(current.length_controlled) - log(candidate.length_controlled)
\* + candidate.log_prob_observed - current.log_prob_observed, plus for every
\* reused controlled variable of the candidate its log_prob minus the log_prob
\* at the same address in the current trace, plus the recorded transition
\* log-probability (0 when unset), and nothing else.
C3_RatioFormula ==
    pc = "mh_accept" =>
        log_acceptance_ratio =
            FAdd(Fin(LogMilli(Len(current_trace.variables_controlled))
                       - LogMilli(Len(candidate_trace.variables_controlled))
                       + ReusedSum(ReusedOf(candidate_trace), current_trace,
                                   candidate_trace)
                       + (IF site_transition_log_prob = None
                          THEN 0 ELSE site_transition_log_prob.v)),
                 FSub(candidate_trace.log_prob_observed,
                      current_trace.log_prob_observed))

\* a ratio with a length term, a reused variable whose log_prob changed, a
\* variable that is not reused and a transition term
C3_Witness ==
    /\ pc = "mh_accept"
    /\ Len(current_trace.variables_controlled) = 1
    /\ Len(candidate_trace.variables_controlled) = 2
    /\ \E n \in ReusedOf(candidate_trace) :
          candidate_trace.variables_controlled[n].log_prob
              # SameAddressLogProb(current_trace, candidate_trace, n)
    /\ \E n \in 1..2 : ~candidate_trace.variables_controlled[n].reused
    /\ site_transition_log_prob = Fin(-500)
    /\ log_acceptance_ratio = Fin(-2193)

\* C4: whenever the log acceptance ratio of a step is NaN or minus infinity
\* the step is a reject: the current trace is unchanged, the accepted tally
\* is not incremented and the previous current trace is appended again.
C4_DegenerateRejects ==
    [][(pc = "mh_accept" /\ log_acceptance_ratio \in {NaN, NInf}) =>
            /\ current_trace' = current_trace
            /\ traces_accepted' = traces_accepted
            /\ posterior' = Append(posterior,
                                   Entry(ApplyMapFunc(map_func, current_trace), None))
      ]_vars

\* C5: degenerate acceptance terms never abort a run: no step of a
\* Metropolis-Hastings run raises on a length_controlled of 0, on a
\* zero-probability observation or on a uniform draw of exactly 0.
C5_NeverAborts ==
    MHRun => error # "ValueError"

\* C6: when the transition log-probability is unset after the candidate was
\* generated, the step prints the warning, computes the ratio as with a
\* transition term of 0, goes on to the accept test, and that test appends
\* an entry and hands over to the next step.
C6_UnsetTransition ==
    [][/\ (pc = "mh_ratio" /\ site_transition_log_prob = None) =>
            /\ warned'
            /\ pc' = "mh_accept"
            /\ log_acceptance_ratio' =
                   LogAcceptanceRatio(current_trace, candidate_trace, Fin(0))
       /\ (pc = "mh_accept" /\ warned) =>
            /\ Len(posterior') = Len(posterior) + 1
            /\ pc' = "mh_loop"
      ]_vars

\* C7: for num_traces >= 1 a PRIOR-mode run returns a posterior with exactly
\* num_traces entries, the j-th of them the j-th generated trace (as map_func
\* hands it over), all with the same weight, finalized once, so that its
\* effective sample size is num_traces.
C7_PriorRun ==
    (func = "prior_traces" /\ pc = "returned" /\ num_traces >= 1) =>
        /\ Len(posterior) = num_traces
        /\ finalized = 1
        /\ \A j \in 1..Len(posterior) :
              /\ posterior[j].value = ApplyMapFunc(map_func, [id |-> j])
              /\ posterior[j].log_weight = posterior[1].log_weight
        /\ EssNumerator(posterior) = num_traces * EssDenominator(posterior)

\* a returned PRIOR-mode run of two traces whose last trace has a
\* log_importance_weight of its own
C7_Witness ==
    /\ func = "prior_traces"
    /\ pc = "returned"
    /\ num_traces = 2
    /\ Len(posterior) = 2
    /\ map_func = "None"
    /\ trace.log_importance_weight = -1000

\* C8: the importance sampler stores each trace with weight 1 in PRIOR mode,
\* that is with log-weight 0, and with weight exp(log_importance_weight) in
\* POSTERIOR mode, that is with the log-weight read from the generated trace
\* before map_func is applied.
C8_StoredWeight ==
    [][pc = "is_add" =>
            posterior'[Len(posterior')].log_weight =
                IF trace_mode = "PRIOR" THEN 0 ELSE trace.log_importance_weight
      ]_vars

\* C9: when forward() raises, the error leaves the sampler in that very
\* step: nothing is added to the posterior, it is not finalized or renamed,
\* and afterwards nothing happens any more: no forward() is started, no
\* posterior is returned.
C9_ForwardErrorAborts ==
    [][/\ (error = "none" /\ error' = "ModelError") =>
            /\ pc' = "raised"
            /\ forward_calls' = forward_calls + 1
            /\ finalized' = 0
            /\ renamed' = 0
            /\ posterior' = (IF pc = "idle" THEN <<>> ELSE posterior)
       /\ error = "ModelError" => UNCHANGED vars
      ]_vars

\* forward() raised in the second execution of a run that had added a trace
C9_Witness ==
    /\ error = "ModelError"
    /\ pc = "raised"
    /\ forward_calls = 2
    /\ Len(posterior) = 1
    /\ finalized = 0

\* C10: computing and reporting the acceptance-rate and sample-reuse
\* diagnostics never aborts a Metropolis-Hastings run: neither the progress
\* line of a step nor the final rename raises, for every num_traces
\* (0 included) and every value of the tallies (samples_all = 0 included).
C10_DiagnosticsNeverAbort ==
    MHRun => error # "ZeroDivisionError"

\* C11: posterior_traces with IMPORTANCE_SAMPLING_WITH_INFERENCE_NETWORK on a
\* model without an inference network raises at once: forward() has been
\* executed zero times, no generator exists and the trace state has not been
\* initialised, no posterior has been created, and nothing happens after the
\* error; on a model whose network has been loaded or learned the same call
\* raises no error and enters the sampling loop.  Nothing else raises this
\* error.
C11_MissingNetwork ==
    [][/\ (pc = "idle"
           /\ inference_engine' = "IMPORTANCE_SAMPLING_WITH_INFERENCE_NETWORK") =>
            IF inference_network = "None"
            THEN /\ error' = "RuntimeError"
                 /\ pc' = "raised"
                 /\ forward_calls' = 0
                 /\ generator' = "none"
                 /\ init_traces' = 0
                 /\ begun' = 0
                 /\ finalized' = 0
                 /\ renamed' = 0
                 /\ UNCHANGED posterior
            ELSE /\ error' = "none"
                 /\ pc' = "is_loop"
                 /\ posterior' = <<>>
       /\ (error = "none" /\ error' = "RuntimeError") =>
            /\ pc = "idle"
            /\ inference_engine' = "IMPORTANCE_SAMPLING_WITH_INFERENCE_NETWORK"
            /\ inference_network = "None"
       /\ error = "RuntimeError" => UNCHANGED vars
      ]_vars

\* the call has raised on a model that never got a network
C11_Witness ==
    /\ error = "RuntimeError"
    /\ pc = "raised"
    /\ inference_engine = "IMPORTANCE_SAMPLING_WITH_INFERENCE_NETWORK"
    /\ inference_network = "None"
    /\ num_traces = 2
    /\ forward_calls = 0
    /\ init_traces = 0

\* the executions that gave the run its first current trace
FirstExecutions == IF initial_trace = "None" THEN 1 ELSE 0

\* C12: a Metropolis-Hastings run has no current trace before the call and
\* has one before its first step: without an initial_trace, the trace of
\* exactly one execution that had no reference trace (nothing reused, no
\* transition recorded); with an initial_trace, that trace and no execution.
\* So with i steps completed forward() has been executed i + 1 times without
\* an initial trace and i times with one (one more while step i + 1 holds
\* its candidate), num_traces + 1 or num_traces times when the loop is left,
\* and the accept test always has a current trace.
C12_FirstCurrentTrace ==
    /\ pc = "idle" => current_trace = None
    /\ MHRun =>
        /\ pc \in {"mh_loop", "mh_propose"}
              => forward_calls = FirstExecutions + i
        /\ pc \in {"mh_ratio", "mh_accept"}
              => forward_calls = FirstExecutions + i + 1
        /\ pc \in {"mh_finalize", "mh_rename", "returned"}
              => forward_calls = FirstExecutions + num_traces
        /\ pc \in {"mh_loop", "mh_propose", "mh_ratio", "mh_accept",
                    "mh_finalize", "mh_rename", "returned"}
              => current_trace # None
        /\ (pc = "mh_loop" /\ i = 0) =>
              /\ current_trace.id = FirstExecutions
              /\ \A n \in 1..Len(current_trace.variables_controlled) :
                    ~current_trace.variables_controlled[n].reused
              /\ initial_trace = "None" =>
                    /\ site_transition_log_prob = None
                    /\ forward_calls = 1

\* a returned chain of two steps that was given its initial trace
C12_Witness ==
    /\ MHRun
    /\ pc = "returned"
    /\ initial_trace = "given"
    /\ num_traces = 2
    /\ forward_calls = 2
    /\ traces_accepted = 1

\* C13: in every sampling run of either sampler, finalize() is called at
\* most once and only after the loop has added all num_traces entries; the
\* rename, whose argument reads length and effective_sample_size, comes at
\* most once and only after finalize(); a run that returns has finalized
\* once and renamed once; and once finalize() has been called the posterior
\* gets no further add().
C13_FinalizeOnce ==
    [][/\ finalized' \in {finalized, finalized + 1}
       /\ finalized' = finalized + 1 =>
            /\ finalized = 0
            /\ renamed = 0
            /\ Len(posterior) = num_traces
            /\ i = num_traces
            /\ pc \in {"is_finalize", "mh_finalize"}
       /\ renamed' \in {renamed, renamed + 1}
       /\ renamed' = renamed + 1 =>
            /\ renamed = 0
            /\ finalized = 1
            /\ pc' = "returned"
       /\ pc' = "returned" =>
            /\ finalized' = 1
            /\ renamed' = 1
            /\ pc \in {"is_rename", "mh_rename"}
       /\ finalized >= 1 => UNCHANGED posterior
       /\ pc \in {"is_add", "mh_accept"} => finalized = 0
       /\ pc = "returned" => UNCHANGED vars
      ]_vars

\* a returned importance sampling run of two traces, finalized and renamed
C13_Witness ==
    /\ pc = "returned"
    /\ inference_engine = "IMPORTANCE_SAMPLING"
    /\ func = "posterior_traces"
    /\ Len(posterior) = 2
    /\ finalized = 1
    /\ renamed = 1

\* C14: when the log acceptance ratio of a step is exactly 0 the accept
\* test accepts the candidate for every uniform draw: the current trace
\* becomes the candidate and the accepted tally increases by one.
C14_ZeroRatioAccepts ==
    [][(pc = "mh_accept" /\ log_acceptance_ratio = Fin(0)) =>
            /\ current_trace' = candidate_trace
            /\ traces_accepted' = traces_accepted + 1
      ]_vars

\* C15: the length and likelihood part of the log acceptance ratio is
\* antisymmetric: for the two traces A and B of a step, line 109 evaluated
\* with current = A and candidate = B gives the negation of what it gives
\* with current = B and candidate = A (NaN when both likelihoods are minus
\* infinity, in either order), it raises in one order exactly when it raises
\* in the other, and a step without reused variables and transition term
\* carries that value as its ratio into the accept test.
C15_Antisymmetric ==
    /\ RatioRaises(current_trace, candidate_trace)
          = RatioRaises(candidate_trace, current_trace)
    /\ ~RatioRaises(current_trace, candidate_trace) =>
          RatioBase(current_trace, candidate_trace)
              = FNeg(RatioBase(candidate_trace, current_trace))
    /\ (/\ pc = "mh_accept"
        /\ ReusedOf(candidate_trace) = {}
        /\ site_transition_log_prob = None) =>
          log_acceptance_ratio = FNeg(RatioBase(candidate_trace, current_trace))

\* a step from a trace of one controlled variable and zero likelihood to one
\* of two variables and likelihood one: log 1 - log 2 + 0 - (-inf)
C15_Witness ==
    /\ pc = "mh_accept"
    /\ LengthControlled(current_trace) = 1
    /\ LengthControlled(candidate_trace) = 2
    /\ current_trace.log_prob_observed = NInf
    /\ candidate_trace.log_prob_observed = Fin(0)
    /\ ReusedOf(candidate_trace) = {}
    /\ site_transition_log_prob = None
    /\ log_acceptance_ratio = PInf
    /\ RatioBase(candidate_trace, current_trace) = NInf

ISRun == inference_engine \in Engines \ MHEngines

\* the counts of _begin_trace calls, forward() executions, _end_trace calls
\* and entries added
ISCounts == <<begun, forward_calls, ended, Len(posterior)>>

\* C16: an importance sampling run executes the program one trace after the
\* other: state._init_traces runs once, before the first _begin_trace, and
\* never again; with i traces added, trace i + 1 goes through _begin_trace,
\* then forward(), then _end_trace, then add, each exactly once and each
\* only after trace i has been added; the j-th entry of the posterior is
\* the trace of the j-th execution; and when the loop is left exactly
\* num_traces executions have been begun, run, ended and added, and none
\* follows.
C16_SequentialExecutions ==
    (ISRun /\ pc # "raised") =>
        /\ init_traces = (IF generator = "created" THEN 0 ELSE 1)
        /\ begun >= 1 => generator # "created"
        /\ pc \in {"is_loop", "gen_resume"} => ISCounts = <<i, i, i, i>>
        /\ pc = "gen_resume" => i < num_traces
        /\ pc = "gen_begin" =>
              /\ ISCounts = <<0, 0, 0, 0>>
              /\ i = 0
              /\ init_traces = 1
        /\ pc = "is_next" => ISCounts = <<i + 1, i, i, i>>
        /\ pc = "is_add" =>
              /\ ISCounts = <<i + 1, i + 1, i + 1, i>>
              /\ trace.id = i + 1
        /\ pc \in {"is_finalize", "is_rename", "returned"} =>
              ISCounts = <<num_traces, num_traces, num_traces, num_traces>>
        /\ i <= num_traces
        /\ \A j \in 1..Len(posterior) :
              posterior[j].value = ApplyMapFunc(map_func, [id |-> j])

\* the second trace of a run has been begun, executed and ended and is about
\* to be added; the trace state was initialised once
C16_Witness ==
    /\ ISRun
    /\ pc = "is_add"
    /\ i = 1
    /\ num_traces = 2
    /\ init_traces = 1
    /\ ISCounts = <<2, 2, 2, 1>>

\* a trace as an execution made it, not a value map_func returned
RawTrace(t) == "variables_controlled" \in DOMAIN t

\* what a completed accept test can leave as current trace and accepted
\* tally, as a function of the two traces, the ratio and the draw alone
Decisions(cur, cand, ratio, accepted) ==
    {<<NextCurrent(AcceptTest(k, ratio), cur, cand),
       accepted + (IF AcceptTest(k, ratio) THEN 1 ELSE 0)>> : k \in 1..(UDenom - 1)}

\* C17: the reference trace of the proposal of a step is the raw current
\* trace, the one whose stored form the previous step appended: the
\* candidate reuses variables only from it, the ratio is computed from it,
\* and map_func touches the appended value only; the current trace after a
\* step is the raw candidate or the raw previous current trace, decided by
\* the two traces, the ratio and the draw and not by map_func.
C17_RawReference ==
    [][/\ (pc = "mh_propose" /\ pc' = "mh_ratio") =>
            /\ RawTrace(current_trace)
            /\ UNCHANGED current_trace
            /\ Len(posterior) >= 1 =>
                  posterior[Len(posterior)].value
                      = ApplyMapFunc(map_func, current_trace)
            /\ \A n \in ReusedOf(candidate_trace') :
                  HasAddress(current_trace,
                             candidate_trace'.variables_controlled[n].address)
       /\ (pc = "mh_ratio" /\ pc' = "mh_accept") =>
            /\ UNCHANGED current_trace
            /\ log_acceptance_ratio' =
                   LogAcceptanceRatio(current_trace, candidate_trace,
                                      site_transition_log_prob)
       /\ (pc = "mh_accept" /\ pc' = "mh_loop") =>
            /\ <<current_trace', traces_accepted'>>
                   \in Decisions(current_trace, candidate_trace,
                                 log_acceptance_ratio, traces_accepted)
            /\ RawTrace(current_trace')
            /\ posterior'[Len(posterior')].value
                   = ApplyMapFunc(map_func, current_trace')
      ]_vars

\* the second step of a run with a map_func: its candidate reuses a variable
\* of the current trace, which the first step accepted and stored mapped
C17_Witness ==
    /\ MHRun
    /\ pc = "mh_ratio"
    /\ map_func = "given"
    /\ i = 1
    /\ traces_accepted = 1
    /\ RawTrace(current_trace)
    /\ posterior[1].value = [map_func_of |-> current_trace.id]
    /\ ReusedOf(candidate_trace) # {}

Tallies == <<traces_accepted, samples_reused, samples_all>>

\* C18: the tallies of a Metropolis-Hastings run start at 0 and change with
\* the steps only: computing a step's ratio adds the candidate's
\* length_controlled to samples_all and the number of its reused controlled
\* variables to samples_reused, whether the candidate is then accepted or
\* rejected; the accept test adds one to traces_accepted exactly when it
\* replaces the current trace, and leaves the sample tallies alone.  So
\* after k steps 0 <= traces_accepted <= k and
\* 0 <= samples_reused <= samples_all.
C18_Tallies ==
    [][/\ pc = "idle" => Tallies' = <<0, 0, 0>>
       /\ (pc = "mh_ratio" /\ pc' = "mh_accept") =>
            /\ samples_all' = samples_all + LengthControlled(candidate_trace)
            /\ samples_reused' =
                   samples_reused + Cardinality(ReusedOf(candidate_trace))
            /\ UNCHANGED traces_accepted
       /\ (pc = "mh_accept" /\ pc' = "mh_loop") =>
            /\ traces_accepted' =
                   traces_accepted
                       + (IF current_trace' # current_trace THEN 1 ELSE 0)
            /\ UNCHANGED <<samples_reused, samples_all>>
       /\ ~(pc' \in {"mh_accept", "mh_loop"} /\ pc \in {"mh_ratio", "mh_accept"})
            => (pc = "idle" \/ UNCHANGED Tallies)
       /\ MHRun' =>
            /\ 0 <= traces_accepted' /\ traces_accepted' <= i'
            /\ 0 <= samples_reused' /\ samples_reused' <= samples_all'
      ]_vars

\* two steps done, the first accepted and the second rejected, both
\* candidates counted: three controlled variables, two of them reused
C18_Witness ==
    /\ MHRun
    /\ pc = "mh_loop"
    /\ i = 2
    /\ traces_accepted = 1
    /\ current_trace.id < candidate_trace.id
    /\ samples_all = 3
    /\ samples_reused = 2

\* C19: under every interleaving of the steps of two Metropolis-Hastings
\* runs, the transition log-probability a run reads for its acceptance ratio
\* was set by the execution that generated that run's own candidate of that
\* step: not by an execution of the other run, and not by an earlier
\* execution.
C19_OwnTransition ==
    [][/\ (pc = "mh_ratio" /\ pc' = "mh_accept") =>
            site_writer = Writer("self", candidate_trace.id)
       /\ (other # None /\ other'.read # other.read) =>
            other'.read = Writer("other", other.executions)
      ]_vars

====
